---- MODULE Spec2Model ----
(***************************************************************************)
(* Model of pssh/clients/ssh_lib/single.py: the construction of one        *)
(* SSHClient (transport connect, protocol handshake, authentication chain, *)
(* whole-sequence retry) and its teardown (disconnect, scope exit,         *)
(* destruction).                                                           *)
(*                                                                         *)
(* One handle is modelled.  Each call into the socket, the protocol        *)
(* session or the key importer is one step whose outcome is chosen         *)
(* nondeterministically; everything the code does between two such calls   *)
(* belongs to the step that precedes it.  The recursion of _connect and of *)
(* _init/_connect_init_retry is tail recursion, so a frame is represented  *)
(* by its local `retries` only.                                            *)
(***************************************************************************)
EXTENDS Naturals, Integers, Sequences, FiniteSets

(* ------------------------------ bounds -------------------------------- *)
MaxRetries == 3
MaxCalls == 1
MaxHandleRetries == 2

(* --------------------------- program values --------------------------- *)
UNSET == -1
NONE == 0
IDENTITIES == <<"id_rsa", "id_dsa", "identity">>

VARIABLES
    num_retries,      \* self.num_retries
    user,             \* self.user: "none" | "given" (the argument at first)
    WIN_PLATFORM,     \* module flag: no pwd module
    pkey,             \* "none" | "valid" | "invalid" : the pkey argument
    password,         \* "none" | "set"
    allow_agent,      \* BOOLEAN
    auth_thread_pool, \* the _auth_thread_pool argument
    pc,               \* position of the construction
    caller,           \* who called the running _connect
    retries,          \* local `retries` of _init / _connect_init_retry
    cretries,         \* local `retries` of the running _connect
    socks,            \* every socket object created so far
    sock,             \* self.sock: UNSET (no attribute), NONE or an index
    sessions,         \* every Session object created so far
    session,          \* self.session: UNSET, NONE or an index
    ident,            \* index of the identity file under test
    where,            \* "none" | "pool" | "inline" : where _init first ran
    err,              \* error raised by the constructor
    cause,            \* step whose failure raised err
    connectAttempts,  \* number of sock.connect calls made
    connectOks,       \* number of them that succeeded
    hsAttempts,       \* number of session.connect calls made
    authRuns,         \* number of auth() calls made
    sleeps,           \* number of sleep(retry_delay) calls made
    lastOp,           \* last of "sleep" | "connect" | "other"
    firstFail,        \* step that failed first: "none" or a cause
    authLog,          \* calls made by the running / last auth()
    authRes,          \* "idle" | "running" | "ok" | "fail"
    authErr,          \* error that left the last auth()
    scope,            \* "out" | "in" | "exited" | "raised" : the with-block
    calls,            \* number of disconnect-type calls made
    lcErr,            \* error raised by a disconnect-type call
    destroyed         \* __del__ has run

cfg == <<num_retries, user, WIN_PLATFORM, pkey, password, allow_agent,
         auth_thread_pool>>
ctl == <<pc, caller, retries, cretries, ident, where, err, cause>>
net == <<socks, sock, sessions, session>>
hist == <<connectAttempts, connectOks, hsAttempts, authRuns, sleeps, lastOp,
          firstFail>>
au == <<authLog, authRes, authErr>>
life == <<scope, calls, lcErr, destroyed>>
vars == <<cfg, ctl, net, hist, au, life>>

(* ------------------------------ objects ------------------------------- *)
\* socket.socket(AF_INET, SOCK_STREAM)
NewSock == [closed |-> FALSE, closes |-> 0, connected |-> FALSE]

NewSession_nonblocking(s) == [sock |-> s, handshaken |-> FALSE,
                              authed |-> FALSE, blocking |-> FALSE,
                              set_blocking |-> 1]

\* Session() followed by set_socket(self.sock)
NewSession(s) == [sock |-> s, handshaken |-> FALSE, authed |-> FALSE,
                  blocking |-> TRUE, set_blocking |-> 0]

\* sock.close()
Close(ss, i) == [ss EXCEPT ![i].closed = TRUE, ![i].closes = @ + 1]

IsSock(s) == s \in 1..Len(socks)

(* ------------------------------- Init --------------------------------- *)
Init ==
    /\ num_retries \in 1..MaxRetries
    /\ user \in {"none", "given"}
    /\ WIN_PLATFORM \in BOOLEAN
    /\ pkey \in {"none", "valid", "invalid"}
    /\ password \in {"none", "set"}
    /\ allow_agent \in BOOLEAN
    /\ auth_thread_pool \in BOOLEAN
    /\ pc = "new"
    /\ caller = "none"
    /\ retries = 1
    /\ cretries = 1
    /\ socks = <<>>
    /\ sock = UNSET
    /\ sessions = <<>>
    /\ session = UNSET
    /\ ident = 0
    /\ where = "none"
    /\ err = "none"
    /\ cause = "none"
    /\ connectAttempts = 0
    /\ connectOks = 0
    /\ hsAttempts = 0
    /\ authRuns = 0
    /\ sleeps = 0
    /\ lastOp = "other"
    /\ firstFail = "none"
    /\ authLog = <<>>
    /\ authRes = "idle"
    /\ authErr = "none"
    /\ scope = "out"
    /\ calls = 0
    /\ lcErr = "none"
    /\ destroyed = FALSE

(* ----------------------------- __init__ ------------------------------- *)
\* lines 94-98: no user given and no OS identity to fall back on
user_missing == user = "none" /\ WIN_PLATFORM

\* lines 94-96: self.user is the argument or, without one, the name of the
\* effective uid
resolved_user == "given"

\* __init__ raising ValueError at line 98, before self.sock is assigned
init_ValueError ==
    /\ pc = "new"
    /\ user_missing
    /\ pc' = "failed"
    /\ err' = "ValueError"
    /\ cause' = "user"
    /\ UNCHANGED <<cfg, caller, retries, cretries, ident, where, net, hist,
                   au, life>>

\* _validate_pkey_path(pkey, host): None stays None, a bad path raises
validate_pkey_path_raises == pkey = "invalid"

\* __init__ raising at line 108, after self.sock = self.session = None
init_PKeyFileError ==
    /\ pc = "new"
    /\ ~user_missing
    /\ validate_pkey_path_raises
    /\ user' = resolved_user
    /\ sock' = NONE
    /\ session' = NONE
    /\ pc' = "failed"
    /\ err' = "PKeyFileError"
    /\ cause' = "pkey"
    /\ UNCHANGED <<num_retries, WIN_PLATFORM, pkey, password, allow_agent,
                   auth_thread_pool, caller, retries, cretries, ident, where,
                   socks, sessions, hist, au, life>>

\* __init__ up to the first sock.connect of self._connect(host, port)
init_connect ==
    /\ pc = "new"
    /\ ~user_missing
    /\ ~validate_pkey_path_raises
    /\ user' = resolved_user
    /\ session' = NONE
    /\ socks' = Append(socks, NewSock)
    /\ sock' = Len(socks) + 1
    /\ cretries' = 1
    /\ caller' = "__init__"
    /\ pc' = "connect"
    /\ UNCHANGED <<num_retries, WIN_PLATFORM, pkey, password, allow_agent,
                   auth_thread_pool, retries, ident, where, err, cause,
                   sessions, hist, au, life>>

(* ------------------------- retry bookkeeping -------------------------- *)
ConnectMayRetry_offByOne(r) == r <= num_retries

\* _connect, lines 171 and 180: `while retries < self.num_retries`
ConnectMayRetry(r) == r < num_retries

InitMayRetry_offByOne(r) == r <= num_retries

\* _init, lines 147 and 155: `while retries < self.num_retries`
InitMayRetry(r) == r < num_retries

retry_closes_sock_never == FALSE

\* _connect_init_retry, line 132: `if not self.sock.closed`
retry_closes_sock == ~socks[sock].closed

connect_init_retry_noSleep ==
    /\ retries' = retries + 1
    /\ session' = NONE
    /\ LET ss == IF retry_closes_sock THEN Close(socks, sock) ELSE socks
       IN  /\ socks' = Append(ss, NewSock)
           /\ sock' = Len(socks) + 1
    /\ sleeps' = sleeps
    /\ lastOp' = "other"
    /\ cretries' = retries + 1
    /\ caller' = "_connect_init_retry"
    /\ pc' = "connect"
    /\ UNCHANGED <<err, cause>>

\* _connect_init_retry(retries), run up to the sock.connect of its _connect:
\* the counter is incremented, the session dropped, the socket closed, one
\* retry_delay slept and a new socket created.
connect_init_retry ==
    /\ retries' = retries + 1
    /\ session' = NONE
    /\ LET ss == IF retry_closes_sock THEN Close(socks, sock) ELSE socks
       IN  /\ socks' = Append(ss, NewSock)
           /\ sock' = Len(socks) + 1
    /\ sleeps' = sleeps + 1
    /\ lastOp' = "sleep"
    /\ cretries' = retries + 1
    /\ caller' = "_connect_init_retry"
    /\ pc' = "connect"
    /\ UNCHANGED <<err, cause>>

\* a step of kind c has failed; the first such kind is remembered
note_failure(c) == firstFail' = IF firstFail = "none" THEN c ELSE firstFail

\* the construction ends by raising e
raise(e, c) ==
    /\ pc' = "failed"
    /\ err' = e
    /\ cause' = c
    /\ lastOp' = "other"
    /\ UNCHANGED <<retries, cretries, caller, socks, sock, session, sleeps>>

\* the except clauses of _init: retry while the bound allows, else raise
init_except(e, c) ==
    IF InitMayRetry(retries) THEN connect_init_retry ELSE raise(e, c)

(* ------------------------------ _connect ------------------------------ *)
\* sock.connect((host, port)) returns
connect_ok ==
    /\ pc = "connect"
    /\ socks' = [socks EXCEPT ![sock].connected = TRUE]
    /\ connectAttempts' = connectAttempts + 1
    /\ connectOks' = connectOks + 1
    /\ lastOp' = "connect"
    /\ IF caller = "__init__"
       THEN /\ pc' = "dispatch"
            /\ UNCHANGED <<sessions, session>>
       ELSE \* _connect_init_retry goes on with self._init(retries=retries)
            /\ sessions' = Append(sessions, NewSession(sock))
            /\ session' = Len(sessions) + 1
            /\ pc' = "handshake"
    /\ UNCHANGED <<cfg, caller, retries, cretries, ident, where, err, cause,
                   sock, hsAttempts, authRuns, sleeps, firstFail, au, life>>

\* an except clause of _connect: sleep and connect again on a new socket
\* (the failed one is left as it is), or raise the typed error
connect_except(e, c) ==
    /\ connectAttempts' = connectAttempts + 1
    /\ note_failure(c)
    /\ IF ConnectMayRetry(cretries)
       THEN /\ sleeps' = sleeps + 1
            /\ lastOp' = "sleep"
            /\ cretries' = cretries + 1
            /\ socks' = Append(socks, NewSock)
            /\ sock' = Len(socks) + 1
            /\ UNCHANGED <<pc, err, cause>>
       ELSE /\ pc' = "failed"
            /\ err' = e
            /\ cause' = c
            /\ lastOp' = "connect"
            /\ UNCHANGED <<sleeps, cretries, socks, sock>>
    /\ UNCHANGED <<cfg, caller, retries, ident, where, sessions, session,
                   connectOks, hsAttempts, authRuns, au, life>>

\* sock.connect raises socket.gaierror
connect_gaierror ==
    /\ pc = "connect"
    /\ connect_except("UnknownHostException", "resolve")

connect_sock_error_asUnknownHost ==
    /\ pc = "connect"
    /\ connect_except("UnknownHostException", "connect")

\* sock.connect raises any other socket.error
connect_sock_error ==
    /\ pc = "connect"
    /\ connect_except("ConnectionErrorException", "connect")

(* ------------------------------- _init -------------------------------- *)
\* lines 139-143: a new Session bound to self.sock
init_session ==
    /\ sessions' = Append(sessions, NewSession(sock))
    /\ session' = Len(sessions) + 1
    /\ pc' = "handshake"

init_pool_notAwaited ==
    /\ pc = "dispatch"
    /\ auth_thread_pool
    /\ where' = "pool"
    /\ pc' = "ready"
    /\ UNCHANGED <<cfg, caller, retries, cretries, ident, err, cause, net,
                   hist, au, life>>

init_pool_neverRuns ==
    /\ pc = "dispatch"
    /\ auth_thread_pool
    /\ where' = "pool"
    /\ UNCHANGED <<cfg, pc, caller, retries, cretries, ident, err, cause,
                   net, hist, au, life>>

\* __init__ line 111: THREAD_POOL.apply(self._init)
init_pool ==
    /\ pc = "dispatch"
    /\ auth_thread_pool
    /\ where' = "pool"
    /\ init_session
    /\ UNCHANGED <<cfg, caller, retries, cretries, ident, err, cause, socks,
                   sock, hist, au, life>>

\* __init__ line 113: self._init()
init_inline ==
    /\ pc = "dispatch"
    /\ ~auth_thread_pool
    /\ where' = "inline"
    /\ init_session
    /\ UNCHANGED <<cfg, caller, retries, cretries, ident, err, cause, socks,
                   sock, hist, au, life>>

auth_entry_ignoresPkey == IF allow_agent THEN "agent" ELSE "identity"

\* auth(), lines 215-230: the first method the chain invokes
auth_entry ==
    IF pkey # "none" THEN "pkey_import"
    ELSE IF allow_agent THEN "agent"
    ELSE "identity"

\* session.connect() returns; self.auth() is entered
handshake_ok ==
    /\ pc = "handshake"
    /\ sessions' = [sessions EXCEPT ![session].handshaken = TRUE]
    /\ hsAttempts' = hsAttempts + 1
    /\ authRuns' = authRuns + 1
    /\ lastOp' = "other"
    /\ authLog' = <<>>
    /\ authRes' = "running"
    /\ authErr' = "none"
    /\ pc' = auth_entry
    /\ ident' = 1
    /\ UNCHANGED <<cfg, caller, retries, cretries, where, err, cause, socks,
                   sock, session, connectAttempts, connectOks, sleeps,
                   firstFail, life>>

handshake_fail_ignored ==
    /\ pc = "handshake"
    /\ hsAttempts' = hsAttempts + 1
    /\ authRuns' = authRuns + 1
    /\ lastOp' = "other"
    /\ authLog' = <<>>
    /\ authRes' = "running"
    /\ authErr' = "none"
    /\ pc' = auth_entry
    /\ ident' = 1
    /\ UNCHANGED <<cfg, caller, retries, cretries, where, err, cause, net,
                   connectAttempts, connectOks, sleeps, firstFail, life>>

\* session.connect() raises: lines 146-151
handshake_fail ==
    /\ pc = "handshake"
    /\ hsAttempts' = hsAttempts + 1
    /\ note_failure("handshake")
    /\ init_except("LowLevel", "handshake")
    /\ UNCHANGED <<cfg, ident, where, sessions, connectAttempts, connectOks,
                   authRuns, au, life>>

(* ------------------------------- auth --------------------------------- *)
\* one call into the session or the key importer, with its outcome
Call(m, i, ok) == [m |-> m, i |-> i, ok |-> ok]

\* auth() returns; _init line 159 switches the session to non-blocking
auth_return(log) ==
    /\ authLog' = log
    /\ authRes' = "ok"
    /\ authErr' = "none"
    /\ sessions' = [sessions EXCEPT ![session].authed = TRUE,
                                    ![session].blocking = FALSE,
                                    ![session].set_blocking = @ + 1]
    /\ pc' = "ready"
    /\ lastOp' = "other"
    /\ UNCHANGED <<cfg, caller, retries, cretries, ident, where, err, cause,
                   socks, sock, session, connectAttempts, connectOks,
                   hsAttempts, authRuns, sleeps, firstFail, life>>

\* auth() raises e, caught by _init at line 154
auth_raise(log, e) ==
    /\ authLog' = log
    /\ authRes' = "fail"
    /\ authErr' = e
    /\ note_failure("auth")
    /\ init_except("AuthenticationException", "auth")
    /\ UNCHANGED <<cfg, ident, where, sessions, connectAttempts, connectOks,
                   hsAttempts, authRuns, life>>

\* auth() goes on to its next call
auth_goto(log, p, i) ==
    /\ authLog' = log
    /\ pc' = p
    /\ ident' = i
    /\ UNCHANGED <<cfg, caller, retries, cretries, where, err, cause, net,
                   hist, authRes, authErr, life>>

\* _pkey_auth line 244: import_privkey_file(self.pkey, self.password)
pkey_import ==
    /\ pc = "pkey_import"
    /\ \E ok \in BOOLEAN :
         LET log == Append(authLog, Call("import_pkey", 0, ok))
         IN  IF ok THEN auth_goto(log, "pkey_auth", ident)
                   ELSE auth_raise(log, "KeyImportError")

\* _pkey_auth line 245: session.userauth_publickey(pkey)
pkey_auth ==
    /\ pc = "pkey_auth"
    /\ \E ok \in BOOLEAN :
         LET log == Append(authLog, Call("publickey_pkey", 0, ok))
         IN  IF ok THEN auth_return(log)
                   ELSE auth_raise(log, "LowLevel")

agent_ok_fallsThrough == FALSE

\* auth() lines 226-228: a successful agent authentication returns
agent_ok_returns == TRUE

\* auth() lines 220-228: session.userauth_agent(self.user)
agent_auth ==
    /\ pc = "agent"
    /\ \E ok \in BOOLEAN :
         LET log == Append(authLog, Call("agent", 0, ok))
         IN  IF ok /\ agent_ok_returns
             THEN auth_return(log)
             ELSE auth_goto(log, "identity", 1)

password_fallback_always == TRUE

password_fallback_never == FALSE

\* auth() line 232: the password fallback is taken when a password is set
password_fallback == password # "none"

\* _identity_auth line 191: the file tried after file i, 0 when i is last
next_identity(i) == IF i < Len(IDENTITIES) THEN i + 1 ELSE 0

identity_ok_continues == FALSE

\* _identity_auth lines 208-211: a successful identity file returns
identity_ok_returns == TRUE

\* _identity_auth moves past file `ident`; after the last file it raises
\* AuthenticationException, which auth() catches at line 231
identity_continue(log) ==
    IF next_identity(ident) # 0
    THEN auth_goto(log, "identity", next_identity(ident))
    ELSE IF password_fallback
         THEN auth_goto(log, "password", ident)
         ELSE auth_raise(log, "No authentication methods succeeded")

\* _identity_auth lines 191-211: one iteration of the loop over IDENTITIES
identity_auth ==
    /\ pc = "identity"
    /\ \E o \in {"missing", "KeyImportError", "authfail", "ok"} :
         LET isf == Append(authLog, Call("isfile", ident, o # "missing"))
             imp == Append(isf, Call("import", ident, o # "KeyImportError"))
             pub == Append(imp, Call("publickey", ident, o = "ok"))
         IN  CASE o = "missing" -> identity_continue(isf)
               [] o = "KeyImportError" -> identity_continue(imp)
               [] o = "authfail" -> identity_continue(pub)
               [] o = "ok" -> IF identity_ok_returns THEN auth_return(pub)
                              ELSE identity_continue(pub)

\* _password_auth lines 238-241: session.userauth_password(user, password)
password_auth ==
    /\ pc = "password"
    /\ \E ok \in BOOLEAN :
         LET log == Append(authLog, Call("password", 0, ok))
         IN  IF ok THEN auth_return(log)
                   ELSE auth_raise(log, "Password authentication failed")

(* ----------------------------- lifecycle ------------------------------ *)
should_close_inverted == sock # NONE /\ socks[sock].closed

\* disconnect() line 117: `self.sock is not None and not self.sock.closed`
should_close == sock # NONE /\ ~socks[sock].closed

\* disconnect(), lines 117-118; reading self.sock fails when __init__ never
\* assigned it
disconnect_body ==
    /\ calls' = calls + 1
    /\ IF sock = UNSET
       THEN /\ lcErr' = "AttributeError"
            /\ UNCHANGED socks
       ELSE /\ socks' = IF should_close THEN Close(socks, sock) ELSE socks
            /\ UNCHANGED lcErr
    /\ UNCHANGED <<cfg, ctl, sock, sessions, session, hist, au>>

\* the owner of a constructed handle calls disconnect()
disconnect ==
    /\ pc = "ready"
    /\ ~destroyed
    /\ calls < MaxCalls
    /\ disconnect_body
    /\ UNCHANGED <<scope, destroyed>>

\* __enter__: a with-block is entered on the constructed handle
enter ==
    /\ pc = "ready"
    /\ ~destroyed
    /\ scope = "out"
    /\ scope' = "in"
    /\ UNCHANGED <<cfg, ctl, net, hist, au, calls, lcErr, destroyed>>

\* __exit__(*args): the with-block is left, by completion ("exited") or by
\* an error raised in it ("raised"); the arguments are ignored
exit ==
    /\ scope = "in"
    /\ ~destroyed
    /\ scope' \in {"exited", "raised"}
    /\ disconnect_body
    /\ UNCHANGED destroyed

\* __del__: the handle is collected, also when __init__ raised
del ==
    /\ pc \in {"ready", "failed"}
    /\ scope # "in"
    /\ ~destroyed
    /\ destroyed' = TRUE
    /\ disconnect_body
    /\ UNCHANGED scope

Next ==
    \/ init_ValueError \/ init_PKeyFileError \/ init_connect
    \/ connect_ok \/ connect_gaierror \/ connect_sock_error
    \/ init_pool \/ init_inline
    \/ handshake_ok \/ handshake_fail
    \/ pkey_import \/ pkey_auth \/ agent_auth \/ identity_auth
    \/ password_auth
    \/ disconnect \/ enter \/ exit \/ del

Spec == Init /\ [][Next]_vars

\* the steps of the constructor alone
construct ==
    \/ init_ValueError \/ init_PKeyFileError \/ init_connect
    \/ connect_ok \/ connect_gaierror \/ connect_sock_error
    \/ init_pool \/ init_inline
    \/ handshake_ok \/ handshake_fail
    \/ pkey_import \/ pkey_auth \/ agent_auth \/ identity_auth
    \/ password_auth

\* the constructor on its own, for every num_retries up to MaxRetries
ConstructSpec == Init /\ [][construct]_vars

\* the handles whose use after construction is followed
HandleInit == Init /\ num_retries <= MaxHandleRetries

\* construction and use of a handle
HandleSpec == HandleInit /\ [][Next]_vars

\* The constructor is sequential code: every call it makes into the socket,
\* the session or the key importer returns or raises, so a constructor
\* step that is possible is eventually taken.
LiveSpec == Init /\ [][construct]_vars /\ WF_vars(construct)

(* ------------------------------ properties ---------------------------- *)
AuthPcs == {"pkey_import", "pkey_auth", "agent", "identity", "password"}
ConnectCauses == {"resolve", "connect"}
RetryCauses == {"resolve", "connect", "handshake", "auth"}

\* C1: while no sock.connect has succeeded, each failure is followed by one
\* sleep and one more attempt until num_retries attempts have been made;
\* the construction then raises after exactly num_retries attempts and
\* num_retries - 1 sleeps, UnknownHostException for a resolution failure and
\* ConnectionErrorException for any other socket failure.
C1_ExactAttempts ==
    connectOks = 0 =>
      /\ pc \in {"new", "connect", "failed"}
      /\ pc = "connect" =>
            /\ connectAttempts = cretries - 1
            /\ connectAttempts < num_retries
            /\ sleeps = connectAttempts
      /\ (pc = "failed" /\ cause \in ConnectCauses) =>
            /\ connectAttempts = num_retries
            /\ sleeps = num_retries - 1
            /\ cause = "resolve" => err = "UnknownHostException"
            /\ cause = "connect" => err = "ConnectionErrorException"
      /\ (pc = "failed" /\ cause \notin ConnectCauses) => connectAttempts = 0

C1_Witness ==
    /\ pc = "failed"
    /\ connectOks = 0
    /\ num_retries = 3
    /\ connectAttempts = 3
    /\ sleeps = 2
    /\ err = "UnknownHostException"

\* C2: transport, handshake and authentication failures share one attempt
\* bound: the number of sock.connect calls of one construction never
\* exceeds num_retries.
C2_SharedBound == connectAttempts <= num_retries

\* C3: when the construction fails after its retries, the error is
\* UnknownHostException for a resolution failure, ConnectionErrorException
\* for a connect or handshake failure and AuthenticationException for an
\* authentication failure, never the library's own exception.
C3_TypedErrors ==
    (pc = "failed" /\ cause \in RetryCauses) =>
      /\ err # "LowLevel"
      /\ cause = "resolve" => err = "UnknownHostException"
      /\ cause \in {"connect", "handshake"} => err = "ConnectionErrorException"
      /\ cause = "auth" => err = "AuthenticationException"

(* the calls of the running or last auth() *)
Last == authLog[Len(authLog)]
Has(m) == \E k \in DOMAIN authLog : authLog[k].m = m
Count(m) == Cardinality({k \in DOMAIN authLog : authLog[k].m = m})
IdentityCalls == {"isfile", "import", "publickey"}
NofIdentities == Len(IDENTITIES)
\* the scan has gone past the last identity file without a success
ScanFailed ==
    \E k \in DOMAIN authLog :
       /\ authLog[k].m \in IdentityCalls
       /\ authLog[k].i = NofIdentities
       /\ ~authLog[k].ok

\* C4: with an explicit private key, auth() calls the key import and the
\* public-key authentication of that key and nothing else; the first call
\* that fails ends auth() with that call's own error, the chain catching
\* nothing, and auth() succeeds only when both calls succeeded.
C4_PkeyOnly ==
    pkey # "none" =>
      /\ pc \notin {"agent", "identity", "password"}
      /\ Len(authLog) <= 2
      /\ \A k \in DOMAIN authLog :
            /\ k = 1 => authLog[k].m = "import_pkey"
            /\ k = 2 => authLog[k].m = "publickey_pkey" /\ authLog[1].ok
            /\ ~authLog[k].ok =>
                  /\ k = Len(authLog)
                  /\ authRes = "fail"
                  /\ authErr = IF authLog[k].m = "import_pkey"
                               THEN "KeyImportError" ELSE "LowLevel"
      /\ authRes = "fail" => authLog # <<>> /\ ~Last.ok
      /\ authRes = "ok" =>
            authLog = <<Call("import_pkey", 0, TRUE),
                        Call("publickey_pkey", 0, TRUE)>>

C4_Witness ==
    /\ pkey = "valid"
    /\ password = "set"
    /\ allow_agent
    /\ authRes = "fail"
    /\ authLog = <<Call("import_pkey", 0, TRUE),
                   Call("publickey_pkey", 0, FALSE)>>

\* C5: the agent is asked only when allow_agent is set and no explicit key
\* is configured, and then as the first call of auth(); when it succeeds
\* auth() returns at once, with no identity file and no password tried.
C5_AgentFirst ==
    /\ \A k \in DOMAIN authLog :
          authLog[k].m = "agent" => allow_agent /\ pkey = "none" /\ k = 1
    /\ ~allow_agent => pc # "agent"
    /\ (pkey = "none" /\ allow_agent /\ authRes # "idle" /\ pc # "agent") =>
          authLog # <<>> /\ authLog[1].m = "agent"
    /\ (authLog # <<>> /\ authLog[1] = Call("agent", 0, TRUE)) =>
          /\ authRes = "ok"
          /\ Len(authLog) = 1
          /\ pc = "ready"

C5_Witness ==
    /\ pkey = "none"
    /\ allow_agent
    /\ password = "set"
    /\ pc = "ready"
    /\ authLog = <<Call("agent", 0, TRUE)>>

\* C6: without an explicit key the identity scan starts when the agent has
\* failed or is disabled, takes the files of IDENTITIES in order, skips a
\* file that is missing, fails to load or fails to authenticate, and ends
\* auth() successfully at the first file that loads and authenticates, with
\* no later file and no password tried.
C6_IdentityScan ==
    pkey = "none" =>
      /\ pc = "identity" =>
            /\ authRes = "running"
            /\ ident \in 1..NofIdentities
            /\ IF ident = 1
               THEN \/ authLog = <<>> /\ ~allow_agent
                    \/ authLog = <<Call("agent", 0, FALSE)>>
               ELSE /\ Last.m \in IdentityCalls
                    /\ Last.i = ident - 1
                    /\ ~Last.ok
      /\ \A k \in DOMAIN authLog :
            LET c == authLog[k] IN
            /\ c.m = "isfile" =>
                  /\ c.i \in 1..NofIdentities
                  /\ IF c.i = 1
                     THEN \/ k = 1 /\ ~allow_agent
                          \/ k = 2 /\ authLog[1] = Call("agent", 0, FALSE)
                     ELSE /\ k > 1
                          /\ authLog[k-1].m \in IdentityCalls
                          /\ authLog[k-1].i = c.i - 1
                          /\ ~authLog[k-1].ok
                  /\ c.ok => k < Len(authLog) /\ authLog[k+1].m = "import"
            /\ c.m = "import" =>
                  /\ k > 1 /\ authLog[k-1] = Call("isfile", c.i, TRUE)
                  /\ c.ok => k < Len(authLog) /\ authLog[k+1].m = "publickey"
            /\ c.m = "publickey" =>
                  /\ k > 1 /\ authLog[k-1] = Call("import", c.i, TRUE)
                  /\ c.ok => /\ k = Len(authLog)
                             /\ authRes = "ok"
                             /\ pc = "ready"
            /\ (c.m \in IdentityCalls /\ ~c.ok /\ k < Len(authLog)) =>
                  IF c.i < NofIdentities
                  THEN authLog[k+1] \in {Call("isfile", c.i + 1, b) :
                                            b \in BOOLEAN}
                  ELSE authLog[k+1].m = "password"

C6_Witness ==
    /\ pkey = "none"
    /\ ~allow_agent
    /\ password = "set"
    /\ IDENTITIES[2] = "id_dsa"
    /\ authRes = "ok"
    /\ authLog = <<Call("isfile", 1, TRUE), Call("import", 1, FALSE),
                   Call("isfile", 2, TRUE), Call("import", 2, TRUE),
                   Call("publickey", 2, TRUE)>>

\* C7: with no password configured, password authentication is never
\* called; once the agent (if allowed) and every identity file have failed,
\* auth() fails with AuthenticationException("No authentication methods
\* succeeded"), and it fails in no other way.
C7_NoPasswordNoFallback ==
    (pkey = "none" /\ password = "none") =>
      /\ ~Has("password")
      /\ pc # "password"
      /\ ScanFailed =>
            /\ authRes = "fail"
            /\ authErr = "No authentication methods succeeded"
      /\ authRes = "fail" =>
            /\ ScanFailed
            /\ authErr = "No authentication methods succeeded"
            /\ \A k \in DOMAIN authLog :
                  authLog[k].m \in {"agent", "publickey"} => ~authLog[k].ok

C7_Witness ==
    /\ pkey = "none"
    /\ password = "none"
    /\ allow_agent
    /\ authRes = "fail"
    /\ authErr = "No authentication methods succeeded"
    /\ authLog[1] = Call("agent", 0, FALSE)
    /\ Len(authLog) = 6
    /\ Last = Call("publickey", 3, FALSE)

\* C8: with a password configured and no explicit key, password
\* authentication is called exactly once per auth(), as its last call and
\* only after the scan has failed on the last identity file; when it fails
\* auth() fails with AuthenticationException("Password authentication
\* failed").
C8_OnePasswordAttempt ==
    (pkey = "none" /\ password = "set") =>
      /\ Count("password") <= 1
      /\ pc = "password" =>
            ScanFailed /\ Count("password") = 0 /\ authRes = "running"
      /\ ScanFailed => pc = "password" \/ Count("password") = 1
      /\ \A k \in DOMAIN authLog :
            authLog[k].m = "password" =>
               /\ k = Len(authLog)
               /\ k > 1
               /\ authLog[k-1].m \in IdentityCalls
               /\ authLog[k-1].i = NofIdentities
               /\ ~authLog[k-1].ok
               /\ IF authLog[k].ok
                  THEN authRes = "ok"
                  ELSE /\ authRes = "fail"
                       /\ authErr = "Password authentication failed"
      /\ authRes = "fail" => Has("password")

C8_Witness ==
    /\ pkey = "none"
    /\ password = "set"
    /\ authRes = "fail"
    /\ authErr = "Password authentication failed"
    /\ Count("password") = 1
    /\ Last = Call("password", 0, FALSE)
    /\ ScanFailed

\* C9: whatever disconnect(), __exit__ and __del__ calls are made on one
\* handle, none of them raises, no socket is closed more than once, and
\* once one of them has run the handle's socket, if it has one, is closed.
C9_Idempotent ==
    /\ lcErr = "none"
    /\ \A i \in DOMAIN socks : socks[i].closes <= 1
    /\ (calls >= 1 /\ IsSock(sock)) => socks[sock].closed

\* C10 as stated: every retry that was triggered has run a whole further
\* cycle, handshake included, by the time an error surfaces.
C10_FullCycleBeforeError ==
    (pc = "failed" /\ retries > 1) => hsAttempts = retries

\* session.connect() or auth() raises in this step
HandshakeOrAuthFails ==
    \/ pc = "handshake" /\ hsAttempts' = hsAttempts + 1 /\ authRuns' = authRuns
    \/ pc \in AuthPcs /\ authRes' = "fail"

\* the step of _connect_init_retry after a failure at attempt `retries`
RetryStep ==
    /\ retries < num_retries
    /\ retries' = retries + 1
    /\ cretries' = retries + 1
    /\ pc' = "connect"
    /\ err' = "none"
    /\ sleeps' = sleeps + 1
    /\ session' = NONE
    /\ socks'[sock].closed
    /\ socks'[sock].closes = 1
    /\ sock' \notin DOMAIN socks
    /\ sock' \in DOMAIN socks'
    /\ socks'[sock'] = NewSock

\* the attempt under way runs on the newest session and the newest socket
AttemptIsFresh ==
    pc \in {"handshake"} \cup AuthPcs =>
      /\ session = Len(sessions)
      /\ Len(sessions) = retries
      /\ sessions[session].sock = sock
      /\ sock = Len(socks)
      /\ socks[sock].connected
      /\ ~socks[sock].closed
      /\ \A i \in 1..(Len(socks) - 1) : socks[i].connected => socks[i].closed
      /\ hsAttempts = IF pc = "handshake" THEN retries - 1 ELSE retries
      /\ pc \in AuthPcs => authRes = "running" /\ authRuns \in 1..retries

\* an error surfaces before the handshake of the new attempt only when the
\* reconnect itself has used up its attempts
ErrorAfterCycle ==
    (pc = "failed" /\ retries > 1) =>
      \/ hsAttempts = retries
      \/ cause \in ConnectCauses /\ hsAttempts = retries - 1

\* C10 (amended): a handshake or authentication failure at attempt
\* k < num_retries closes the failed attempt's socket, drops its session,
\* sleeps once and starts a new sock.connect as attempt k+1 before any error
\* surfaces; when that reconnect succeeds a new session on the new socket
\* runs handshake k+1, and an error surfaces earlier only from the
\* reconnect itself.
C10_RetryCycle ==
    /\ [][HandshakeOrAuthFails /\ retries < num_retries => RetryStep]_vars
    /\ [][retries' # retries => HandshakeOrAuthFails /\ RetryStep]_vars
    /\ []AttemptIsFresh
    /\ []ErrorAfterCycle

C10_Witness ==
    /\ num_retries = 3
    /\ retries = 3
    /\ pc = "password"
    /\ hsAttempts = 3
    /\ Len(sessions) = 3
    /\ socks[sock - 1].closed

AllConnectsOk == connectAttempts = connectOks
AllHandshakesOk == hsAttempts = authRuns

\* C11: as long as every sock.connect and every session.connect() has
\* succeeded, each failure of auth() below num_retries starts a new attempt
\* on a new socket and a new session, and the construction raises
\* AuthenticationException exactly when auth() has failed num_retries
\* times, whichever method made it fail.
C11_AuthRetries ==
    (AllConnectsOk /\ AllHandshakesOk) =>
      /\ authRuns <= num_retries
      /\ pc \in AuthPcs =>
            authRuns = retries /\ session = retries /\ sock = retries
      /\ (authRes = "fail" /\ pc # "failed") =>
            /\ authRuns < num_retries
            /\ pc \in {"connect", "handshake"}
            /\ retries = authRuns + 1
      /\ (pc = "failed" /\ cause \in RetryCauses) =>
            /\ cause = "auth"
            /\ err = "AuthenticationException"
            /\ authRes = "fail"
            /\ authRuns = num_retries
            /\ Len(socks) = num_retries
            /\ Len(sessions) = num_retries
            /\ \A i \in DOMAIN sessions :
                  /\ sessions[i].sock = i
                  /\ sessions[i].handshaken
                  /\ ~sessions[i].authed

C11_Witness ==
    /\ pc = "failed"
    /\ AllConnectsOk
    /\ AllHandshakesOk
    /\ num_retries = 3
    /\ authRuns = 3
    /\ pkey = "valid"
    /\ authErr = "KeyImportError"
    /\ err = "AuthenticationException"

\* C12: the handle never has more than one socket that is not closed.
C12_OneOpenTransport ==
    Cardinality({i \in DOMAIN socks : ~socks[i].closed}) <= 1

\* C13: a session is non-blocking only after its handshake and its
\* authentication have succeeded, set_blocking is called at most once on it
\* and it never becomes blocking again; the construction returns only with
\* the newest session handshaken, authenticated, non-blocking and bound to
\* self.sock, which is connected and open.
SessionModes ==
    \A i \in DOMAIN sessions :
       /\ sessions[i].set_blocking <= 1
       /\ sessions[i].blocking <=> sessions[i].set_blocking = 0
       /\ ~sessions[i].blocking =>
             /\ sessions[i].handshaken
             /\ sessions[i].authed
             /\ i = session

ReadySession ==
    pc = "ready" =>
      /\ err = "none"
      /\ IsSock(sock)
      /\ session = Len(sessions)
      /\ sessions[session].sock = sock
      /\ sessions[session].handshaken
      /\ sessions[session].authed
      /\ ~sessions[session].blocking
      /\ socks[sock].connected
      /\ calls = 0 => ~socks[sock].closed

C13_NonBlockingAfterAuth ==
    /\ []SessionModes
    /\ []ReadySession
    /\ [][\A i \in DOMAIN sessions :
             ~sessions[i].blocking => ~sessions'[i].blocking]_vars

C13_Witness ==
    /\ pc = "ready"
    /\ calls = 0
    /\ retries = 2
    /\ Len(sessions) = 2
    /\ sessions[1].blocking
    /\ ~sessions[2].blocking
    /\ sessions[2].set_blocking = 1

\* C14: a session exists only on a socket whose connect has succeeded, its
\* handshake is made only then, and a call of the authentication chain is
\* made only on a session whose handshake has succeeded.
OrderedState ==
    /\ \A i \in DOMAIN sessions :
          /\ socks[sessions[i].sock].connected
          /\ sessions[i].authed => sessions[i].handshaken
    /\ pc \in {"new", "connect"} => session \in {UNSET, NONE}
    /\ pc = "handshake" =>
          /\ sessions[session].sock = sock
          /\ socks[sock].connected
          /\ ~sessions[session].handshaken
    /\ pc \in AuthPcs => sessions[session].handshaken
    /\ authRuns = Cardinality({i \in DOMAIN sessions : sessions[i].handshaken})
    /\ hsAttempts <= connectOks

C14_StrictOrder ==
    /\ []OrderedState
    /\ [][hsAttempts' # hsAttempts =>
             pc = "handshake" /\ socks[sock].connected]_vars
    /\ [][(authLog' # authLog /\ authLog' # <<>>) =>
             pc \in AuthPcs /\ sessions[session].handshaken]_vars

C14_Witness ==
    /\ pc = "password"
    /\ retries = 2
    /\ connectAttempts = 3
    /\ hsAttempts = 2
    /\ authRuns = 1

\* C15: once the with-block of a constructed handle has been left, by
\* completion or by an error, the handle's socket is closed, it has been
\* closed once, also when disconnect() ran inside the block, and leaving the
\* block raised nothing.
C15_ScopedClose ==
    /\ scope \in {"in", "exited", "raised"} => pc = "ready"
    /\ scope \in {"exited", "raised"} =>
          /\ IsSock(sock)
          /\ socks[sock].closed
          /\ socks[sock].closes = 1
          /\ lcErr = "none"

C15_Witness ==
    /\ scope = "raised"
    /\ calls = 2
    /\ ~destroyed
    /\ socks[sock].closed
    /\ socks[sock].closes = 1

\* C16: when the construction raises after its retries, the last socket is
\* closed and self.session is None at that moment.
C16_DestroyedTogether ==
    (pc = "failed" /\ cause \in RetryCauses /\ calls = 0) =>
      /\ socks[sock].closed
      /\ session = NONE

\* C17: a sock.connect that is not the first of the construction is made
\* right after one sleep, that sleep follows a failed connect, handshake or
\* authentication, and no sleep is made by the step that ends the
\* construction.
SleepCount ==
    /\ connectAttempts = 0 => sleeps = 0
    /\ pc = "connect" =>
          /\ sleeps = connectAttempts
          /\ connectAttempts > 0 => lastOp = "sleep"
    /\ (pc # "connect" /\ connectAttempts > 0) =>
          /\ sleeps = connectAttempts - 1
          /\ lastOp # "sleep"

C17_SleepBetweenAttempts ==
    /\ []SleepCount
    /\ [][sleeps' # sleeps =>
             /\ sleeps' = sleeps + 1
             /\ pc' = "connect"
             /\ \/ pc = "connect" /\ connectAttempts' = connectAttempts + 1
                                 /\ connectOks' = connectOks
                \/ HandshakeOrAuthFails]_vars
    /\ [][connectAttempts' # connectAttempts =>
             /\ pc = "connect"
             /\ connectAttempts > 0 => lastOp = "sleep"]_vars
    /\ [][pc' \in {"ready", "failed"} => sleeps' = sleeps]_vars

C17_Witness ==
    /\ pc = "connect"
    /\ lastOp = "sleep"
    /\ connectAttempts = 2
    /\ sleeps = 2
    /\ hsAttempts = 1
    /\ firstFail = "resolve"

\* what the first call of _init does, whoever makes it
dispatch_effect ==
    /\ init_session
    /\ UNCHANGED <<cfg, caller, retries, cretries, ident, err, cause, socks,
                   sock, hist, au, life>>

C19_Terminates == <>(pc \in {"ready", "failed"})

C19_Witness ==
    /\ pc = "ready"
    /\ num_retries = 3
    /\ retries = 3
    /\ connectAttempts = 6

\* C20: the error of an exhausted _connect is that of its last failure,
\* UnknownHostException for gaierror and ConnectionErrorException for any
\* other socket error, both kinds having counted on the one _connect
\* counter; this also holds for the _connect of a handshake or
\* authentication retry, whose error surfaces in place of theirs.
ConnectExhausted ==
    (pc = "failed" /\ cause \in ConnectCauses) =>
      /\ err = IF cause = "resolve" THEN "UnknownHostException"
                                    ELSE "ConnectionErrorException"
      /\ cretries = num_retries
      /\ ~socks[sock].connected
      /\ connectOks = 0 => connectAttempts = num_retries
      /\ connectOks > 0 => hsAttempts = retries - 1

C20_LastFailureDecides ==
    /\ []ConnectExhausted
    /\ [][(connect_gaierror /\ pc' = "failed") =>
             err' = "UnknownHostException" /\ cause' = "resolve"]_vars
    /\ [][(connect_sock_error /\ pc' = "failed") =>
             err' = "ConnectionErrorException" /\ cause' = "connect"]_vars
    /\ [][(pc = "connect" /\ pc' # "connect") =>
             \/ connect_ok
             \/ pc' = "failed" /\ cause' \in ConnectCauses]_vars

C20_Witness ==
    /\ pc = "failed"
    /\ num_retries = 3
    /\ firstFail = "resolve"
    /\ authRes = "fail"
    /\ retries = 2
    /\ err = "ConnectionErrorException"
====
